---- MODULE Spec2Model ----
(***************************************************************************)
(* State-machine model of the two command-line clients of the repository:  *)
(*   blocks  (src/src/blocks/main.rs)  the stream dispatcher: reads the     *)
(*           block-metadata feed and spawns one transfer task per block     *)
(*           whose slot satisfies slot % 10 == 5;                           *)
(*   send    (src/src/send/main.rs)    the batch sender: spawns one         *)
(*           transfer task per configured pair, joins them all, sorts the   *)
(*           results by duration (descending) and prints them.              *)
(* The variable prog says which of the two binaries is running.            *)
(***************************************************************************)
EXTENDS Integers, Sequences, FiniteSets, TLC

\* ------------------------------------------------------------------ bounds
\* Longest feed the upstream is followed for.
MaxFeed == 4
\* Most pairs in the batch sender's configuration.
MaxPairs == 3
\* Task durations are drawn from 1..MaxDur (abstract time units).
MaxDur == 3

\* Lamports each user of the deposit program starts with.
InitialLamports == 3
\* Largest amount passed to deposit and withdraw.
MaxAmount == 3
\* Lamports the payer puts into a vault created by init (its rent-exempt
\* minimum for space = 8 + 32).
VaultRent == 1

\* Most addresses in the balance utility's configuration.
MaxAddrs == 3
\* Balances the ledger service answers with are drawn from 0..MaxBalance.
MaxBalance == 1

\* Slots the upstream announces (non-decreasing along the feed).
Slots == {3, 5, 10, 15, 25}
\* Blockhash strings of a block-metadata update: "H" is a well-formed base58
\* 32-byte hash, "?" a string that is not one.
HashStrings == {"H", "?"}
\* Sender public keys of the batch sender's pairs.
Keys == {"A", "B"}

VARIABLES
    prog,           \* "blocks" | "send": the binary that runs
    \* ---- blocks
    delivered,      \* the feed items updates.next() has yielded so far, in order
    coord,          \* "Listening" (in the while-let loop) | "Stopped" (left it)
    stderr,         \* what the coordinator loop wrote to stderr
    mainResult,     \* "none" while main runs, then "Ok" | "Err": main's return value
    exited,         \* the process has exited (the runtime was dropped)
    tasks,          \* the spawned transfer tasks, in spawn order
    startup,        \* what the start of blocks' main will meet (its inputs)
    sender,         \* the loaded sender_keypair ("none" before it is read)
    \* ---- send
    config,         \* config.pairs as read from the YAML file
    pairs,          \* the loaded TransferPairs
    sendPc,         \* main's position in the batch sender
    handles,        \* the spawned tasks of the batch sender, in spawn order
    results,        \* the results vector
    printed,        \* the "took ..." lines printed, in order
    recentBlockhash, \* main's recent_blockhash ("none" before the fetch)
    fetchCalls,     \* get_latest_blockhash calls made by the batch sender
    \* ---- deposit program
    userLamports,   \* lamports of each user's account
    vault,          \* the vault account at each user's derived address
    lastOp,         \* the last instruction processed and its result
    \* ---- balance
    addresses,      \* the parsed input addresses
    queries,        \* the spawned get_balance tasks, in spawn order
    joined,         \* handles get_balances has awaited so far
    out,            \* the map get_balances builds
    shown           \* the "address: balance" lines main printed

varsSend == <<config, pairs, sendPc, handles, results, printed, recentBlockhash, fetchCalls>>
varsStartup == <<startup, sender>>
varsDeposit == <<userLamports, vault, lastOp>>
varsBalance == <<addresses, queries, joined, out, shown>>
vars == <<prog, delivered, coord, stderr, mainResult, exited, tasks, startup, sender,
          config, pairs, sendPc, handles, results, printed, recentBlockhash, fetchCalls,
          userLamports, vault, lastOp, addresses, queries, joined, out, shown>>

\* What every step of the stream dispatcher after its start leaves alone.
BlocksFrame ==
    /\ UNCHANGED varsSend
    /\ UNCHANGED varsStartup
    /\ UNCHANGED varsDeposit
    /\ UNCHANGED varsBalance

\* ------------------------------------------------------------ blocks: data
\* A feed item: Ok(msg) with a block-metadata update, Ok(msg) with any other
\* update kind (or none), or Err(status).
BlockMeta(slot, hash) == [kind |-> "BlockMeta", slot |-> slot, blockhash |-> hash]
OtherUpdate == [kind |-> "Other", slot |-> 0, blockhash |-> "H"]
StreamError == [kind |-> "Err", slot |-> 0, blockhash |-> "H"]

\* The slot of the last block-metadata update of a feed prefix (0 if none).
RECURSIVE LastSlot(_)
LastSlot(s) ==
    IF s = <<>> THEN 0
    ELSE IF s[Len(s)].kind = "BlockMeta" THEN s[Len(s)].slot
    ELSE LastSlot(SubSeq(s, 1, Len(s) - 1))

\* What the upstream can send next: slots never decrease.
NextItems ==
    { BlockMeta(sl, h) : sl \in { x \in Slots : x >= LastSlot(delivered) },
                         h \in HashStrings }
    \cup {OtherUpdate, StreamError}

\* Faulty variant: the filter condition is dropped.
ShouldDispatchAlways(slot) == TRUE
\* block.slot % 10 == 5
ShouldDispatch(slot) == slot % 10 = 5

\* block.blockhash.parse(): Ok for a well-formed hash string only.
HashParses(h) == h = "H"

\* The value get_latest_blockhash returns ("none": no value); it is not the
\* blockhash string "H" of a feed event.
LatestBlockhash == "R"

\* A freshly spawned transfer task: it awaits get_latest_blockhash. fetched is
\* its recent_blockhash, signedWith the blockhash its transaction was built with.
NewTask(ev) ==
    [ev |-> ev, pc |-> "fetch", result |-> "none", submits |-> 0,
     fetched |-> "none", signedWith |-> "none"]

Running(t) == t.pc \in {"fetch", "send"}

\* Dropping the runtime cancels every task still suspended at an await.
CancelRunning(ts) ==
    [i \in 1..Len(ts) |->
        IF Running(ts[i]) THEN [ts[i] EXCEPT !.pc = "cancelled"] ELSE ts[i]]

\* ---------------------------------------------------------- blocks: actions
\* Faulty variant: the loop awaits transfer(blockhash) instead of spawning it.
CanReadAfterJoin ==
    /\ prog = "blocks"
    /\ coord = "Listening"
    /\ \A i \in 1..Len(tasks) : ~Running(tasks[i])
\* while let Some(update) = updates.next().await: the loop reads the next item
\* whenever main is still in the loop; nothing else is awaited there.
CanRead ==
    /\ prog = "blocks"
    /\ coord = "Listening"

\* Faulty variant: the error is logged but the loop goes on.
OnStreamErrorContinue ==
    /\ stderr' = Append(stderr, "stream error")
    /\ UNCHANGED <<coord, mainResult, tasks>>
\* Faulty variant: leaving the loop aborts the spawned tasks.
OnStreamErrorAborting ==
    /\ stderr' = Append(stderr, "stream error")
    /\ coord' = "Stopped"
    /\ mainResult' = "Ok"
    /\ tasks' = CancelRunning(tasks)
\* Err(error) => { eprintln!("stream error: ..."); break; }  then Ok(())
OnStreamError ==
    /\ stderr' = Append(stderr, "stream error")
    /\ coord' = "Stopped"
    /\ mainResult' = "Ok"
    /\ UNCHANGED tasks

\* Ok(msg) => if let Some(BlockMeta(block)) ... if block.slot % 10 == 5 { parse()?; spawn }
OnUpdate(item, idx) ==
    IF item.kind = "BlockMeta" /\ ShouldDispatch(item.slot)
    THEN IF HashParses(item.blockhash)
         THEN /\ tasks' = Append(tasks, NewTask(idx))
              /\ UNCHANGED <<coord, mainResult, stderr>>
         ELSE \* the ? operator returns the parse error from main
              /\ coord' = "Stopped"
              /\ mainResult' = "Err"
              /\ UNCHANGED <<tasks, stderr>>
    ELSE UNCHANGED <<coord, mainResult, stderr, tasks>>

\* One iteration of the loop on a delivered item.
ReadUpdate ==
    /\ CanRead
    /\ Len(delivered) < MaxFeed
    /\ \E item \in NextItems :
        /\ delivered' = Append(delivered, item)
        /\ IF item.kind = "Err" THEN OnStreamError
           ELSE OnUpdate(item, Len(delivered) + 1)
    /\ UNCHANGED <<prog, exited>>
    /\ BlocksFrame

\* updates.next() yields None: the loop ends and main returns Ok(()).
FeedEnd ==
    /\ CanRead
    /\ coord' = "Stopped"
    /\ mainResult' = "Ok"
    /\ UNCHANGED <<prog, delivered, stderr, exited, tasks>>
    /\ BlocksFrame

\* main has returned: #[tokio::main] drops the runtime, which cancels every
\* task still suspended at an await, and the process exits.
RuntimeShutdown ==
    /\ mainResult # "none"
    /\ ~exited
    /\ exited' = TRUE
    /\ tasks' = CancelRunning(tasks)
    /\ handles' = CancelRunning(handles)
    /\ UNCHANGED <<prog, delivered, coord, stderr, mainResult>>
    /\ queries' = CancelRunning(queries)
    /\ UNCHANGED <<config, pairs, sendPc, results, printed, recentBlockhash, fetchCalls>>
    /\ UNCHANGED varsStartup
    /\ UNCHANGED varsDeposit
    /\ UNCHANGED <<addresses, joined, out, shown>>

\* The exit status of a main returning anyhow::Result<()>.
ExitStatus == IF mainResult = "Err" THEN 1 ELSE 0

\* What the step of task i leaves alone: the coordinator and the other tasks.
TaskFrame(i, t) ==
    /\ tasks' = [tasks EXCEPT ![i] = t]
    /\ UNCHANGED <<prog, delivered, coord, stderr, mainResult, exited>>
    /\ BlocksFrame

\* Faulty variant: the task's error is propagated into main.
TaskFrameUnwinding(i, t) ==
    /\ tasks' = [tasks EXCEPT ![i] = t]
    /\ coord' = "Stopped"
    /\ mainResult' = "Err"
    /\ UNCHANGED <<prog, delivered, stderr, exited>>
    /\ BlocksFrame

\* Err(err) => { eprintln!("get_latest_blockhash error"); return; }
FetchFailed(t) == [t EXCEPT !.pc = "done", !.result = "fetch_err"]

\* Ok(hash): the transaction is signed with it and send_and_confirm_transaction
\* is called (once); the task awaits the confirmation.
\* Faulty variant: the transaction is built with the triggering event's blockhash.
SubmittedWithEventHash(t) ==
    [t EXCEPT !.pc = "send", !.submits = t.submits + 1,
              !.fetched = LatestBlockhash, !.signedWith = delivered[t.ev].blockhash]
Submitted(t) ==
    [t EXCEPT !.pc = "send", !.submits = t.submits + 1,
              !.fetched = LatestBlockhash, !.signedWith = LatestBlockhash]

\* send_and_confirm_transaction returned Ok(signature) / Err(err): printed, task ends.
SendSucceeded(t) == [t EXCEPT !.pc = "done", !.result = "ok"]
\* Faulty variant: a failed send starts the task over.
SendFailedRetry(t) == [t EXCEPT !.pc = "fetch", !.result = "send_err"]
SendFailed(t) == [t EXCEPT !.pc = "done", !.result = "send_err"]

TaskAt(i, pc) ==
    /\ prog = "blocks"
    /\ ~exited
    /\ i \in 1..Len(tasks)
    /\ tasks[i].pc = pc

\* Faulty variant of TaskFetchErr, with the propagating frame.
TaskFetchErrUnwinds(i) == TaskAt(i, "fetch") /\ TaskFrameUnwinding(i, FetchFailed(tasks[i]))
TaskFetchErr(i) == TaskAt(i, "fetch") /\ TaskFrame(i, FetchFailed(tasks[i]))
TaskFetchOk(i) == TaskAt(i, "fetch") /\ TaskFrame(i, Submitted(tasks[i]))
TaskSendOk(i) == TaskAt(i, "send") /\ TaskFrame(i, SendSucceeded(tasks[i]))
TaskSendErr(i) == TaskAt(i, "send") /\ TaskFrame(i, SendFailed(tasks[i]))

\* What the start of main meets: whether the config file reads and parses,
\* whether the gRPC connection and subscription succeed, whether the keypair
\* file reads, whether the recipient string parses.
StartupInputs ==
    [configOk : BOOLEAN, connectOk : BOOLEAN, keypairOk : BOOLEAN, recipientOk : BOOLEAN]

\* What a step of the start leaves alone.
StartFrame ==
    /\ UNCHANGED <<prog, delivered, stderr, exited, tasks, startup>>
    /\ UNCHANGED varsSend
    /\ UNCHANGED varsDeposit
    /\ UNCHANGED varsBalance

\* The config is read, the client connects, subscribes and sends the
\* SubscribeRequest; each ? returns the error from main.
Connect ==
    /\ prog = "blocks"
    /\ coord = "Connecting"
    /\ IF startup.configOk /\ startup.connectOk
       THEN coord' = "Loading" /\ UNCHANGED mainResult
       ELSE coord' = "Failed" /\ mainResult' = "Err"
    /\ UNCHANGED sender
    /\ StartFrame

\* read_keypair_file(...)?, config.recipient.parse()?, lamports; then the loop.
LoadCredentials ==
    /\ prog = "blocks"
    /\ coord = "Loading"
    /\ IF startup.keypairOk /\ startup.recipientOk
       THEN coord' = "Listening" /\ sender' = "K" /\ UNCHANGED mainResult
       ELSE coord' = "Failed" /\ mainResult' = "Err" /\ UNCHANGED sender
    /\ StartFrame

InitBlocks ==
    /\ prog = "blocks"
    /\ delivered = <<>>
    /\ coord = "Connecting"
    /\ startup \in StartupInputs
    /\ sender = "none"
    /\ stderr = <<>>
    /\ mainResult = "none"
    /\ exited = FALSE
    /\ tasks = <<>>
    /\ config = <<>>
    /\ pairs = <<>>
    /\ sendPc = "idle"
    /\ handles = <<>>
    /\ results = <<>>
    /\ printed = <<>>
    /\ recentBlockhash = "none"
    /\ fetchCalls = 0
    /\ userLamports = <<>>
    /\ vault = <<>>
    /\ lastOp = "none"
    /\ addresses = <<>>
    /\ queries = <<>>
    /\ joined = 0
    /\ out = <<>>
    /\ shown = {}

NextBlocks ==
    \/ Connect
    \/ LoadCredentials
    \/ ReadUpdate
    \/ FeedEnd
    \/ RuntimeShutdown
    \/ \E i \in 1..Len(tasks) : TaskFetchErr(i)
    \/ \E i \in 1..Len(tasks) : TaskFetchOk(i)
    \/ \E i \in 1..Len(tasks) : TaskSendOk(i)
    \/ \E i \in 1..Len(tasks) : TaskSendErr(i)

SpecBlocks == InitBlocks /\ [][NextBlocks]_vars

\* ------------------------------------------------------------- send: data
\* One entry of config.pairs: the sender's key (as stored in its keypair file)
\* and whether TryFrom succeeds on it (the keypair file reads and the
\* recipient parses).
PairRead(key, ok) == [key |-> key, loads |-> ok]

RECURSIVE SeqsUpTo(_, _)
SeqsUpTo(S, n) ==
    IF n = 0 THEN {<<>>}
    ELSE LET shorter == SeqsUpTo(S, n - 1)
         IN shorter \cup { Append(q, x) : q \in { r \in shorter : Len(r) = n - 1 }, x \in S }

Configs == SeqsUpTo({ PairRead(k, ok) : k \in Keys, ok \in BOOLEAN }, MaxPairs)

\* Faulty variant: only the first pair is loaded before the tasks are spawned.
AllLoadFirstOnly(cfg) == cfg = <<>> \/ cfg[1].loads
\* pairs.into_iter().map(try_into).collect::<Result<_, _>>(): all or the first error.
AllLoad(cfg) == \A i \in 1..Len(cfg) : cfg[i].loads
LoadedPairs(cfg) == [i \in 1..Len(cfg) |-> cfg[i].key]

\* task::spawn(async move { ... }): the task signs the pair's transfer with the
\* shared recent_blockhash and awaits send_and_confirm_transaction.
NewBatchTask(key) ==
    [key |-> key, pc |-> "send", submits |-> 1, duration |-> 0, sig |-> "none",
     signedWith |-> recentBlockhash]

\* (pair.sender_keypair.pubkey(), duration, signature)
Finished(t, dur, sig) == [t EXCEPT !.pc = "done", !.duration = dur, !.sig = sig]
Outcome(t) == [from |-> t.key, duration |-> t.duration, sig |-> t.sig]

\* Faulty variant: the handle is not awaited.
JoinReadyAlways(t) == TRUE
\* handle.await resolves once the task has ended.
JoinReady(t) == ~Running(t)
\* Faulty variant: handle.await?? also propagates the task's own Err.
JoinFailsOnErr(t) == t.pc = "cancelled" \/ t.sig = "Err"
\* handle.await? is an Err only for a JoinError (the task was cancelled; the
\* task body has no panicking path), never for the task's own Result.
JoinFails(t) == t.pc = "cancelled"

\* results.sort_unstable_by_key(|(_, duration, _)| Reverse(*duration)): some
\* ordering of the same elements with the durations descending; the order of
\* equal durations is not specified.
Perms(n) == { p \in [1..n -> 1..n] : \A i, j \in 1..n : p[i] = p[j] => i = j }
Descending(rs) == \A i \in 1..(Len(rs) - 1) : rs[i].duration >= rs[i + 1].duration
\* Faulty variant (with SortAscending): the key is the duration without Reverse.
Ascending(rs) == \A i \in 1..(Len(rs) - 1) : rs[i].duration <= rs[i + 1].duration
Reordered(rs, p) == [i \in 1..Len(rs) |-> rs[p[i]]]
SortAscending(rs) ==
    { r \in { Reordered(rs, p) : p \in Perms(Len(rs)) } : Ascending(r) }
SortByDurationDesc(rs) ==
    { r \in { Reordered(rs, p) : p \in Perms(Len(rs)) } : Descending(r) }

\* ---------------------------------------------------------- send: actions
SendFrame ==
    /\ UNCHANGED <<prog, delivered, coord, stderr, tasks>>
    /\ UNCHANGED varsStartup
    /\ UNCHANGED varsDeposit
    /\ UNCHANGED varsBalance

\* let recent_blockhash = client.get_latest_blockhash().await?;
SendFetchOk ==
    /\ prog = "send" /\ sendPc = "fetch"
    /\ sendPc' = "load"
    /\ recentBlockhash' = LatestBlockhash
    /\ fetchCalls' = fetchCalls + 1
    /\ UNCHANGED <<config, pairs, handles, results, printed, mainResult, exited>>
    /\ SendFrame

\* Faulty variant: the failed fetch is not propagated and main goes on with
\* no value.
SendFetchErrIgnored ==
    /\ prog = "send" /\ sendPc = "fetch"
    /\ sendPc' = "load"
    /\ fetchCalls' = fetchCalls + 1
    /\ UNCHANGED <<config, pairs, handles, results, printed, exited, recentBlockhash, mainResult>>
    /\ SendFrame
SendFetchErr ==
    /\ prog = "send" /\ sendPc = "fetch"
    /\ sendPc' = "returned"
    /\ mainResult' = "Err"
    /\ fetchCalls' = fetchCalls + 1
    /\ UNCHANGED <<config, pairs, handles, results, printed, exited, recentBlockhash>>
    /\ SendFrame

\* let pairs: Vec<TransferPair> = config.pairs.into_iter()...collect()?;
LoadPairs ==
    /\ prog = "send" /\ sendPc = "load"
    /\ IF AllLoad(config)
       THEN /\ pairs' = LoadedPairs(config)
            /\ sendPc' = IF Len(config) = 0 THEN "sort" ELSE "spawn"
            /\ UNCHANGED mainResult
       ELSE /\ sendPc' = "returned"
            /\ mainResult' = "Err"
            /\ UNCHANGED pairs
    /\ UNCHANGED <<config, handles, results, printed, exited>>
    /\ UNCHANGED <<recentBlockhash, fetchCalls>>
    /\ SendFrame

\* for pair in pairs { handles.push(task::spawn(...)) }
SpawnNext ==
    /\ prog = "send" /\ sendPc = "spawn"
    /\ handles' = Append(handles, NewBatchTask(pairs[Len(handles) + 1]))
    /\ sendPc' = IF Len(handles) + 1 = Len(pairs) THEN "join" ELSE "spawn"
    /\ UNCHANGED <<config, pairs, results, printed, mainResult, exited>>
    /\ UNCHANGED <<recentBlockhash, fetchCalls>>
    /\ SendFrame

\* A spawned task's send_and_confirm_transaction returns: it takes its
\* duration and ends with (pubkey, duration, signature).
BatchTaskDone(i) ==
    /\ prog = "send" /\ ~exited
    /\ i \in 1..Len(handles)
    /\ handles[i].pc = "send"
    /\ \E dur \in 1..MaxDur, sig \in {"Ok", "Err"} :
        handles' = [handles EXCEPT ![i] = Finished(handles[i], dur, sig)]
    /\ UNCHANGED <<config, pairs, sendPc, results, printed, mainResult, exited>>
    /\ UNCHANGED <<recentBlockhash, fetchCalls>>
    /\ SendFrame

\* for handle in handles { results.push(handle.await?) }
JoinNext ==
    /\ prog = "send" /\ sendPc = "join"
    /\ LET t == handles[Len(results) + 1] IN
        /\ JoinReady(t)
        /\ IF JoinFails(t)
           THEN /\ sendPc' = "returned"
                /\ mainResult' = "Err"
                /\ UNCHANGED results
           ELSE /\ results' = Append(results, Outcome(t))
                /\ sendPc' = IF Len(results) + 1 = Len(handles) THEN "sort" ELSE "join"
                /\ UNCHANGED mainResult
    /\ UNCHANGED <<config, pairs, handles, printed, exited>>
    /\ UNCHANGED <<recentBlockhash, fetchCalls>>
    /\ SendFrame

\* total_duration = start.elapsed(); println!("Total time"); results.sort_unstable_by_key(...)
SortResults ==
    /\ prog = "send" /\ sendPc = "sort"
    /\ results' \in SortByDurationDesc(results)
    /\ sendPc' = "print"
    /\ UNCHANGED <<config, pairs, handles, printed, mainResult, exited>>
    /\ UNCHANGED <<recentBlockhash, fetchCalls>>
    /\ SendFrame

\* for (from, duration, sig) in results { println!("took ...") }  Ok(())
PrintResults ==
    /\ prog = "send" /\ sendPc = "print"
    /\ printed' = results
    /\ sendPc' = "returned"
    /\ mainResult' = "Ok"
    /\ UNCHANGED <<config, pairs, handles, results, exited>>
    /\ UNCHANGED <<recentBlockhash, fetchCalls>>
    /\ SendFrame

InitSend ==
    /\ prog = "send"
    /\ delivered = <<>>
    /\ coord = "idle"
    /\ stderr = <<>>
    /\ mainResult = "none"
    /\ exited = FALSE
    /\ tasks = <<>>
    /\ config \in Configs
    /\ pairs = <<>>
    /\ sendPc = "fetch"
    /\ handles = <<>>
    /\ results = <<>>
    /\ printed = <<>>
    /\ recentBlockhash = "none"
    /\ fetchCalls = 0
    /\ startup = "none"
    /\ sender = "none"
    /\ userLamports = <<>>
    /\ vault = <<>>
    /\ lastOp = "none"
    /\ addresses = <<>>
    /\ queries = <<>>
    /\ joined = 0
    /\ out = <<>>
    /\ shown = {}

NextSend ==
    \/ SendFetchOk
    \/ SendFetchErr
    \/ LoadPairs
    \/ SpawnNext
    \/ \E i \in 1..Len(handles) : BatchTaskDone(i)
    \/ JoinNext
    \/ SortResults
    \/ PrintResults
    \/ RuntimeShutdown

SpecSend == InitSend /\ [][NextSend]_vars

Init == InitBlocks \/ InitSend
Next == NextBlocks \/ NextSend
Spec == Init /\ [][Next]_vars

\* ------------------------------------------------------- deposit program
\* The program's instructions as the runtime processes them: an instruction
\* that returns an error changes no account. Rent collection and the deletion
\* of empty accounts belong to the runtime and are not part of the program.
Users == {"u1", "u2"}

\* seeds = [b"vault", user.key().as_ref()], bump: the address derived from a
\* user's key; different keys give different addresses.
VaultAddress(u) == <<"vault", u>>
VaultAddresses == { VaultAddress(u) : u \in Users }

NoVault == [exists |-> FALSE, owner |-> "none", lamports |-> 0]
OpRecord(op, u, v, amount, result) ==
    [op |-> op, user |-> u, vault |-> v, amount |-> amount, result |-> result]

DepositFrame ==
    /\ UNCHANGED <<prog, delivered, coord, stderr, mainResult, exited, tasks>>
    /\ UNCHANGED varsStartup
    /\ UNCHANGED varsSend
    /\ UNCHANGED varsBalance

\* An instruction failed: nothing but its result is recorded.
Rejected(op, u, v, amount, err) ==
    /\ lastOp' = OpRecord(op, u, v, amount, err)
    /\ UNCHANGED <<userLamports, vault>>

\* initialize with signer u and vault account v.
\* #[account(init, payer = user, space = 8 + 32, seeds = [...], bump)]:
\* v must be the address derived from u and must not exist yet; u pays the
\* new account's lamports. Then vault.owner = user.key().
Initialize(u, v) ==
    /\ prog = "deposit"
    /\ IF v # VaultAddress(u) THEN Rejected("initialize", u, v, 0, "ConstraintSeeds")
       ELSE IF vault[v].exists THEN Rejected("initialize", u, v, 0, "AlreadyInUse")
       ELSE IF userLamports[u] < VaultRent
            THEN Rejected("initialize", u, v, 0, "InsufficientLamports")
       ELSE /\ vault' = [vault EXCEPT ![v] =
                            [exists |-> TRUE, owner |-> u, lamports |-> VaultRent]]
            /\ userLamports' = [userLamports EXCEPT ![u] = @ - VaultRent]
            /\ lastOp' = OpRecord("initialize", u, v, 0, "Ok")
    /\ DepositFrame

\* deposit(amount) with signer u and vault account v.
\* Account<Vault> with mut, seeds, bump; then a system transfer user -> vault.
Deposit(u, v, amount) ==
    /\ prog = "deposit"
    /\ IF ~vault[v].exists THEN Rejected("deposit", u, v, amount, "AccountNotInitialized")
       ELSE IF v # VaultAddress(u) THEN Rejected("deposit", u, v, amount, "ConstraintSeeds")
       ELSE IF userLamports[u] < amount
            THEN Rejected("deposit", u, v, amount, "InsufficientLamports")
       ELSE /\ vault' = [vault EXCEPT ![v].lamports = @ + amount]
            /\ userLamports' = [userLamports EXCEPT ![u] = @ - amount]
            /\ lastOp' = OpRecord("deposit", u, v, amount, "Ok")
    /\ DepositFrame

\* Faulty variant: the Withdraw accounts carry neither seeds nor the owner
\* constraint.
WithdrawAccountsUnchecked(u, v) == "Ok"
\* #[account(mut, seeds = [b"vault", user.key()], bump, constraint = vault.owner == user.key())]
WithdrawAccounts(u, v) ==
    IF v # VaultAddress(u) THEN "ConstraintSeeds"
    ELSE IF vault[v].owner # u THEN "ConstraintRaw"
    ELSE "Ok"

\* Faulty variant: the require! is missing.
WithdrawFundsUnchecked(v, amount) == TRUE
\* require!(vault_lamports >= amount, VaultError::InsufficientFunds)
WithdrawFundsOk(v, amount) == vault[v].lamports >= amount

\* withdraw(amount) with signer u and vault account v: the lamports move from
\* the vault to the user. (The two balances add up to lamports that existed
\* before, so the u64 addition cannot overflow.)
Withdraw(u, v, amount) ==
    /\ prog = "deposit"
    /\ IF ~vault[v].exists THEN Rejected("withdraw", u, v, amount, "AccountNotInitialized")
       ELSE IF WithdrawAccounts(u, v) # "Ok"
            THEN Rejected("withdraw", u, v, amount, WithdrawAccounts(u, v))
       ELSE IF ~WithdrawFundsOk(v, amount)
            THEN Rejected("withdraw", u, v, amount, "InsufficientFunds")
       ELSE /\ vault' = [vault EXCEPT ![v].lamports = @ - amount]
            /\ userLamports' = [userLamports EXCEPT ![u] = @ + amount]
            /\ lastOp' = OpRecord("withdraw", u, v, amount, "Ok")
    /\ DepositFrame

InitDeposit ==
    /\ prog = "deposit"
    /\ userLamports = [u \in Users |-> InitialLamports]
    /\ vault = [v \in VaultAddresses |-> NoVault]
    /\ lastOp = OpRecord("none", "none", <<"none", "none">>, 0, "none")
    /\ delivered = <<>>
    /\ coord = "idle"
    /\ stderr = <<>>
    /\ mainResult = "none"
    /\ exited = FALSE
    /\ tasks = <<>>
    /\ startup = "none"
    /\ sender = "none"
    /\ config = <<>>
    /\ pairs = <<>>
    /\ sendPc = "idle"
    /\ handles = <<>>
    /\ results = <<>>
    /\ printed = <<>>
    /\ recentBlockhash = "none"
    /\ fetchCalls = 0
    /\ addresses = <<>>
    /\ queries = <<>>
    /\ joined = 0
    /\ out = <<>>
    /\ shown = {}

NextDeposit ==
    \/ \E u \in Users, v \in VaultAddresses : Initialize(u, v)
    \/ \E u \in Users, v \in VaultAddresses, amount \in 0..MaxAmount : Deposit(u, v, amount)
    \/ \E u \in Users, v \in VaultAddresses, amount \in 0..MaxAmount : Withdraw(u, v, amount)

SpecDeposit == InitDeposit /\ [][NextDeposit]_vars

\* ------------------------------------------------------- balance utility
\* Addresses of the balance utility's configuration (an address may repeat).
Addrs == {"a", "b"}

BalanceFrame ==
    /\ UNCHANGED <<prog, delivered, coord, stderr, tasks>>
    /\ UNCHANGED varsStartup
    /\ UNCHANGED varsSend
    /\ UNCHANGED varsDeposit

\* task::spawn(get_balance(client, address)): the task awaits client.get_balance.
NewQuery(address) ==
    [address |-> address, pc |-> "fetch", res |-> "none", balance |-> 0]

\* for address in addresses { handles.push((address, task::spawn(...))) }
BalSpawn ==
    /\ prog = "balance"
    /\ mainResult = "none"
    /\ Len(queries) < Len(addresses)
    /\ queries' = [i \in 1..Len(addresses) |-> NewQuery(addresses[i])]
    /\ UNCHANGED <<addresses, joined, out, shown, mainResult, exited>>
    /\ BalanceFrame

\* client.get_balance(&address).await? returns in a spawned task, or the task
\* panics.
QueryDone(i) ==
    /\ prog = "balance" /\ ~exited
    /\ i \in 1..Len(queries)
    /\ queries[i].pc = "fetch"
    /\ \/ \E b \in 0..MaxBalance :
            queries' = [queries EXCEPT ![i] = [@ EXCEPT !.pc = "done", !.res = "Ok", !.balance = b]]
       \/ \E r \in {"Err", "Panicked"} :
            queries' = [queries EXCEPT ![i] = [@ EXCEPT !.pc = "done", !.res = r]]
    /\ UNCHANGED <<addresses, joined, out, shown, mainResult, exited>>
    /\ BalanceFrame

\* Faulty variant: a failed query is not propagated.
QueryFailsNever(q) == FALSE
\* handle.await??: the JoinError of a panicked or cancelled task, or the
\* query's own Err.
QueryFails(q) == q.pc = "cancelled" \/ q.res \in {"Err", "Panicked"}

\* out.insert(address, balance)
Inserted(m, address, balance) ==
    [a \in (DOMAIN m) \cup {address} |-> IF a = address THEN balance ELSE m[a]]

\* for (k, v) in balances { println!("{k}: {v}") }
Lines(m) == { <<a, m[a]>> : a \in DOMAIN m }

\* One iteration of get_balances' second loop; an error returns from
\* get_balances and, through main's ?, from main, and the map is dropped; after
\* the last handle get_balances returns Ok(out) and main prints it.
BalJoin ==
    /\ prog = "balance"
    /\ mainResult = "none"
    /\ Len(queries) = Len(addresses)
    /\ joined < Len(queries)
    /\ LET q == queries[joined + 1] IN
        /\ JoinReady(q)
        /\ IF QueryFails(q)
           THEN /\ mainResult' = "Err"
                /\ out' = <<>>
                /\ UNCHANGED <<joined, shown>>
           ELSE /\ out' = Inserted(out, q.address, q.balance)
                /\ joined' = joined + 1
                /\ IF joined + 1 = Len(queries)
                   THEN mainResult' = "Ok" /\ shown' = Lines(out')
                   ELSE UNCHANGED <<mainResult, shown>>
    /\ UNCHANGED <<addresses, queries, exited>>
    /\ BalanceFrame

\* No address at all: both loops are empty, the empty map is returned.
BalEmpty ==
    /\ prog = "balance"
    /\ mainResult = "none"
    /\ addresses = <<>>
    /\ mainResult' = "Ok"
    /\ UNCHANGED <<addresses, queries, joined, out, shown, exited>>
    /\ BalanceFrame

InitBalance ==
    /\ prog = "balance"
    /\ addresses \in SeqsUpTo(Addrs, MaxAddrs)
    /\ queries = <<>>
    /\ joined = 0
    /\ out = <<>>
    /\ shown = {}
    /\ delivered = <<>>
    /\ coord = "idle"
    /\ stderr = <<>>
    /\ mainResult = "none"
    /\ exited = FALSE
    /\ tasks = <<>>
    /\ startup = "none"
    /\ sender = "none"
    /\ config = <<>>
    /\ pairs = <<>>
    /\ sendPc = "idle"
    /\ handles = <<>>
    /\ results = <<>>
    /\ printed = <<>>
    /\ recentBlockhash = "none"
    /\ fetchCalls = 0
    /\ userLamports = <<>>
    /\ vault = <<>>
    /\ lastOp = "none"

NextBalance ==
    \/ BalSpawn
    \/ \E i \in 1..Len(queries) : QueryDone(i)
    \/ BalJoin
    \/ BalEmpty
    \/ RuntimeShutdown

SpecBalance == InitBalance /\ [][NextBalance]_vars

\* ================================================================= claims
\* The indices, in delivery order, of the delivered block-metadata updates
\* whose slot satisfies slot mod 10 = 5.
IsTrigger(item) == item.kind = "BlockMeta" /\ item.slot % 10 = 5
TriggerIndices(d) ==
    SelectSeq([i \in 1..Len(d) |-> i], LAMBDA i : IsTrigger(d[i]))
\* The triggering event of every dispatch, in spawn order.
DispatchOrder == [i \in 1..Len(tasks) |-> tasks[i].ev]
FailedResult(t) == t.result \in {"fetch_err", "send_err"}

\* C1: every spawned transfer task belongs to a delivered block-metadata
\* update with slot mod 10 = 5, no two tasks belong to the same update, and
\* so no other update (another slot, another kind) leads to a submission.
C1_SpawnOnlyOnTrigger ==
    /\ \A i \in 1..Len(tasks) :
        /\ tasks[i].ev \in 1..Len(delivered)
        /\ IsTrigger(delivered[tasks[i].ev])
    /\ \A i, j \in 1..Len(tasks) : tasks[i].ev = tasks[j].ev => i = j

\* Two dispatches were spawned although updates of other slots and of another
\* kind were delivered as well.
C1_Witness ==
    /\ Len(tasks) = 2
    /\ tasks[1].submits = 1
    /\ \E i \in 1..Len(delivered) : delivered[i].kind = "Other"
    /\ \E i \in 1..Len(delivered) :
        delivered[i].kind = "BlockMeta" /\ delivered[i].slot % 10 # 5

\* C2: the dispatches, in spawn order, are exactly the delivered block events
\* with slot mod 10 = 5, in delivery order.
C2_DispatchesFollowTriggers == DispatchOrder = TriggerIndices(delivered)

\* C3: while the coordinator is Listening and the feed has a next item, the
\* read of that item is enabled, whatever the spawned tasks are doing.
C3_FeedNeverBlocked ==
    (prog = "blocks" /\ coord = "Listening" /\ Len(delivered) < MaxFeed)
        => ENABLED ReadUpdate

\* Two dispatches are in flight, an item was read after each was spawned, and
\* the coordinator is about to read again.
C3_Witness ==
    /\ coord = "Listening"
    /\ Len(delivered) = 3
    /\ Len(tasks) = 2
    /\ tasks[1].ev = 1 /\ tasks[2].ev = 2
    /\ tasks[1].pc = "fetch" /\ tasks[2].pc = "send"

\* C4: a step in which a transfer task fails (fetch, or send/confirm) leaves
\* the coordinator, the feed position and every other task as they were; the
\* failing task ends.
C4_FailureIsolated ==
    [][\A i \in 1..Len(tasks) :
        (~FailedResult(tasks[i]) /\ Len(tasks') = Len(tasks) /\ FailedResult(tasks'[i]))
        => /\ coord' = coord
           /\ mainResult' = mainResult
           /\ delivered' = delivered
           /\ tasks'[i].pc = "done"
           /\ \A j \in 1..Len(tasks) : j # i => tasks'[j] = tasks[j]]_vars

\* One task failed at the fetch, one at the send, a third is still in flight
\* and the coordinator is still Listening.
C4_Witness ==
    /\ coord = "Listening"
    /\ Len(tasks) = 3
    /\ tasks[1].result = "send_err"
    /\ tasks[2].result = "fetch_err"
    /\ tasks[3].pc = "send"

\* C5: when the stream error item has been read after K items, the K items
\* were all processed (the dispatches are the triggers among them), the error
\* was logged once, the coordinator is Stopped and main returned normally;
\* well-formed items alone never make main fail; and once Stopped the
\* coordinator reads no further item and spawns no further task.
WellFormedSoFar ==
    \A i \in 1..Len(delivered) :
        delivered[i].kind # "Err" /\ delivered[i].blockhash = "H"
ErrorRead == Len(delivered) > 0 /\ delivered[Len(delivered)].kind = "Err"
C5_StopsOnStreamError ==
    /\ [](ErrorRead =>
            /\ coord = "Stopped"
            /\ stderr = <<"stream error">>
            /\ mainResult = "Ok"
            /\ DispatchOrder = TriggerIndices(delivered)
            /\ \A i \in 1..(Len(delivered) - 1) : delivered[i].kind # "Err")
    /\ []((sender # "none" /\ WellFormedSoFar) => mainResult # "Err" /\ stderr = <<>>)
    /\ [][coord = "Stopped" =>
            /\ coord' = "Stopped"
            /\ delivered' = delivered
            /\ Len(tasks') = Len(tasks)]_vars

\* Three well-formed items, two of them triggers, then the stream error: two
\* dispatches, the error logged, the process gone.
C5_Witness ==
    /\ Len(delivered) = 4
    /\ delivered[4].kind = "Err"
    /\ \A i \in 1..3 : delivered[i].kind # "Err" /\ delivered[i].blockhash = "H"
    /\ DispatchOrder = <<1, 3>>
    /\ coord = "Stopped"
    /\ exited

\* C6: after a stream error item was read, the process exits with a
\* non-zero status.
C6_StreamErrorExitsNonZero ==
    (prog = "blocks" /\ exited /\ ErrorRead) => ExitStatus # 0

\* C7: no task calls send_and_confirm_transaction more than once, a task that
\* has failed has ended, no event has two tasks and no pair has two tasks.
C7_SubmitAtMostOnce ==
    /\ \A i \in 1..Len(tasks) :
        /\ tasks[i].submits <= 1
        /\ FailedResult(tasks[i]) => tasks[i].pc = "done"
    /\ \A i, j \in 1..Len(tasks) : tasks[i].ev = tasks[j].ev => i = j
    /\ \A i \in 1..Len(handles) : handles[i].submits <= 1
    /\ Len(handles) <= Len(pairs)

\* The stream dispatcher ran to its exit with one task failed at the send and
\* one at the fetch: neither was tried again.
C7_Witness ==
    /\ prog = "blocks"
    /\ exited
    /\ Len(tasks) = 2
    /\ tasks[1].result = "send_err" /\ tasks[1].submits = 1
    /\ tasks[2].result = "fetch_err" /\ tasks[2].submits = 0

\* The outcome the task of pair j ends with, with the key of the j-th
\* configured pair.
OwnOutcome(j) ==
    [from |-> config[j].key, duration |-> handles[j].duration, sig |-> handles[j].sig]
Reported == prog = "send" /\ sendPc = "returned" /\ mainResult = "Ok"

\* C8: when the batch sender has reported, it printed exactly one line per
\* configured pair, the lines are the tasks' own outcomes (the pair's key, the
\* task's duration and result) in some order, and the durations descend.
C8_OneOutcomePerIntentSorted ==
    Reported =>
        /\ Len(printed) = Len(config)
        /\ \E p \in Perms(Len(config)) :
            \A i \in 1..Len(config) :
                /\ handles[p[i]].pc = "done"
                /\ handles[p[i]].duration >= 1
                /\ printed[i] = OwnOutcome(p[i])
        /\ \A i \in 1..(Len(printed) - 1) :
            printed[i].duration >= printed[i + 1].duration

\* Three pairs whose tasks took 3, 1 and 2 units are reported as 3, 2, 1.
C8_Witness ==
    /\ Reported
    /\ Len(handles) = 3
    /\ handles[1].duration = 3 /\ handles[2].duration = 1 /\ handles[3].duration = 2
    /\ config[1].key # config[2].key
    /\ printed[1].duration = 3 /\ printed[2].duration = 2 /\ printed[3].duration = 1
    /\ printed[2].from = config[3].key

\* C9: from the moment the join loop is left (total duration, sort, report,
\* return) every pair has its task and every task has completed; main never
\* returns while a task is running, and no task is ever cancelled.
C9_JoinBarrier ==
    /\ (prog = "send" /\ sendPc \in {"sort", "print", "returned"}) =>
        /\ Len(handles) = Len(pairs)
        /\ \A i \in 1..Len(handles) : handles[i].pc = "done"
    /\ (prog = "send" /\ mainResult # "none") =>
        \A i \in 1..Len(handles) : ~Running(handles[i])
    /\ \A i \in 1..Len(handles) : handles[i].pc # "cancelled"

\* The sender is about to sort: the three tasks have completed, the last one
\* spawned with the longest duration.
C9_Witness ==
    /\ sendPc = "sort"
    /\ Len(handles) = 3
    /\ Len(results) = 3
    /\ handles[3].duration = 3 /\ handles[1].duration = 1

\* C10: a task that ended with a failed submission or confirmation makes
\* neither main fail nor any task be cancelled, and when main has returned
\* every pair's own outcome, the failure included, was printed.
C10_FailureCaptured ==
    (prog = "send" /\ \E i \in 1..Len(handles) : handles[i].sig = "Err") =>
        /\ mainResult # "Err"
        /\ \A j \in 1..Len(handles) : handles[j].pc # "cancelled"
        /\ sendPc = "returned" =>
            /\ Len(printed) = Len(handles)
            /\ Len(handles) = Len(config)
            /\ \A j \in 1..Len(handles) :
                Cardinality({k \in 1..Len(printed) : printed[k] = OwnOutcome(j)})
                    = Cardinality({m \in 1..Len(handles) : OwnOutcome(m) = OwnOutcome(j)})

\* Three pairs, the second failed and the others succeeded: three lines were
\* printed, the failure among them.
C10_Witness ==
    /\ Reported
    /\ Len(handles) = 3
    /\ handles[1].sig = "Ok" /\ handles[2].sig = "Err" /\ handles[3].sig = "Ok"
    /\ Len(printed) = 3
    /\ Cardinality({k \in 1..3 : printed[k].sig = "Err"}) = 1
    /\ Cardinality({k \in 1..3 : printed[k].sig = "Ok"}) = 2

\* C11: a triggering block-metadata event whose blockhash does not parse
\* leaves the coordinator running: main does not fail, and the coordinator is
\* Listening unless the feed itself ended afterwards.
UndecodableRead ==
    /\ Len(delivered) > 0
    /\ IsTrigger(delivered[Len(delivered)])
    /\ delivered[Len(delivered)].blockhash = "?"
C11_DecodeFailureKeepsListening ==
    (prog = "blocks" /\ UndecodableRead) =>
        /\ mainResult # "Err"
        /\ coord = "Listening" \/ mainResult = "Ok"

C13_FetchThenSignThenSubmit ==
    \A i \in 1..Len(tasks) :
        /\ (tasks[i].submits > 0 \/ tasks[i].signedWith # "none") =>
            /\ tasks[i].fetched # "none"
            /\ tasks[i].signedWith = tasks[i].fetched
            /\ tasks[i].signedWith # delivered[tasks[i].ev].blockhash
        /\ tasks[i].pc = "fetch" => (tasks[i].submits = 0 /\ tasks[i].signedWith = "none")
        /\ tasks[i].result = "fetch_err" =>
            /\ tasks[i].pc = "done"
            /\ tasks[i].submits = 0
            /\ tasks[i].fetched = "none"
            /\ tasks[i].signedWith = "none"
        /\ tasks[i].result \in {"ok", "send_err"} => tasks[i].submits = 1

\* One task submitted with the value it fetched and was confirmed, another
\* failed at the fetch and ended without a submission.
C13_Witness ==
    /\ Len(tasks) = 2
    /\ tasks[1].result = "ok" /\ tasks[1].signedWith = "R" /\ tasks[1].submits = 1
    /\ tasks[2].result = "fetch_err" /\ tasks[2].submits = 0

\* C14: the batch sender calls get_latest_blockhash at most once; a task exists
\* only after that one call returned a value, every task's transaction is
\* built with that value, and after a failed fetch main has returned an error
\* with no task spawned.
C14_OneSharedFetch ==
    prog = "send" =>
        /\ fetchCalls <= 1
        /\ Len(handles) > 0 => (fetchCalls = 1 /\ recentBlockhash # "none")
        /\ \A i \in 1..Len(handles) :
            handles[i].signedWith = recentBlockhash /\ handles[i].signedWith # "none"
        /\ (fetchCalls = 1 /\ recentBlockhash = "none") =>
            (handles = <<>> /\ mainResult = "Err" /\ sendPc = "returned")

\* Three tasks were spawned and have ended, all built with the one value
\* fetched up front.
C14_Witness ==
    /\ prog = "send"
    /\ fetchCalls = 1
    /\ Len(handles) = 3
    /\ \A i \in 1..3 : handles[i].signedWith = "R" /\ handles[i].pc = "done"
    /\ sendPc = "returned"

\* C15: in the batch sender a task exists only when every configured pair
\* loaded, so a pair that fails to load means no task and no transfer; in the
\* stream dispatcher an item is read or a task spawned only after the sender
\* credential and the recipient were loaded.
C15_ConfigErrorsOnlyAtStartup ==
    /\ prog = "send" =>
        /\ Len(handles) > 0 =>
            /\ \A i \in 1..Len(config) : config[i].loads
            /\ Len(pairs) = Len(config)
        /\ (\E i \in 1..Len(config) : ~config[i].loads) =>
            (handles = <<>> /\ mainResult # "Ok")
    /\ prog = "blocks" =>
        /\ (Len(delivered) > 0 \/ Len(tasks) > 0 \/ coord \in {"Listening", "Stopped"}) =>
            (sender # "none" /\ startup.keypairOk /\ startup.recipientOk)
        /\ ~(startup.keypairOk /\ startup.recipientOk) =>
            (delivered = <<>> /\ tasks = <<>> /\ mainResult # "Ok")

\* The batch sender fetched the blockhash, then the second of three pairs
\* failed to load: main returned the error and spawned nothing.
C15_Witness ==
    /\ prog = "send"
    /\ Len(config) = 3
    /\ config[1].loads /\ ~config[2].loads /\ config[3].loads
    /\ recentBlockhash = "R"
    /\ mainResult = "Err"
    /\ exited
    /\ handles = <<>>

\* C16: a withdraw succeeds only if the vault held at least amount, and then
\* moves exactly amount from the vault to the user (their sum unchanged); on
\* valid accounts with less than amount in the vault it fails with
\* InsufficientFunds; a failed withdraw changes no balance; and no vault
\* balance is ever negative.
C16_WithdrawChecked ==
    /\ [](prog = "deposit" => \A v \in VaultAddresses : vault[v].lamports >= 0)
    /\ [][lastOp'.op = "withdraw" =>
            LET u == lastOp'.user
                v == lastOp'.vault
                a == lastOp'.amount
            IN  /\ lastOp'.result = "Ok" =>
                    /\ vault[v].lamports >= a
                    /\ vault'[v].lamports = vault[v].lamports - a
                    /\ userLamports'[u] = userLamports[u] + a
                    /\ vault'[v].lamports + userLamports'[u]
                        = vault[v].lamports + userLamports[u]
                /\ (/\ vault[v].exists
                    /\ v = <<"vault", u>>
                    /\ vault[v].owner = u
                    /\ vault[v].lamports < a) => lastOp'.result = "InsufficientFunds"
                /\ lastOp'.result = "InsufficientFunds" => vault[v].lamports < a
                /\ lastOp'.result # "Ok" => (vault' = vault /\ userLamports' = userLamports)
         ]_vars

\* u1 deposited into its vault and has just withdrawn 3 lamports from it,
\* which emptied the vault.
C16_Witness ==
    /\ prog = "deposit"
    /\ lastOp = [op |-> "withdraw", user |-> "u1", vault |-> <<"vault", "u1">>,
                 amount |-> 3, result |-> "Ok"]
    /\ vault[<<"vault", "u1">>].lamports = 0
    /\ userLamports["u1"] = 3

\* C17: a vault's lamports decrease only in a successful withdraw signed by
\* the user the vault's address derives from, who is its recorded owner; a
\* vault's owner changes only in a successful initialize of that vault, to the
\* signer; so a vault that exists is owned by the user it derives from.
C17_OnlyOwnerWithdraws ==
    /\ [](prog = "deposit" =>
            \A u \in Users :
                vault[<<"vault", u>>].exists => vault[<<"vault", u>>].owner = u)
    /\ [][\A u \in Users :
            LET v == <<"vault", u>> IN
            /\ vault'[v].lamports < vault[v].lamports =>
                /\ lastOp'.op = "withdraw"
                /\ lastOp'.result = "Ok"
                /\ lastOp'.vault = v
                /\ lastOp'.user = u
                /\ vault[v].owner = u
            /\ vault'[v].owner # vault[v].owner =>
                /\ lastOp'.op = "initialize"
                /\ lastOp'.result = "Ok"
                /\ lastOp'.vault = v
                /\ lastOp'.user = u
                /\ vault'[v].owner = u
         ]_vars

\* Both users have a vault, u1's holds deposited lamports, and u2's withdraw
\* from u1's vault has just been rejected.
C17_Witness ==
    /\ prog = "deposit"
    /\ vault[<<"vault", "u1">>].lamports = 3
    /\ vault[<<"vault", "u2">>].exists
    /\ lastOp.op = "withdraw"
    /\ lastOp.user = "u2"
    /\ lastOp.vault = <<"vault", "u1">>
    /\ lastOp.amount = 2
    /\ lastOp.result = "ConstraintSeeds"

\* The last query spawned for address a.
LastQueryFor(a) ==
    CHOOSE i \in 1..Len(queries) :
        /\ queries[i].address = a
        /\ \A j \in 1..Len(queries) : queries[j].address = a => j <= i

\* C18: when main of the balance utility returned Ok, one query per input
\* address was spawned and all succeeded, the map has exactly the distinct
\* input addresses as keys, each with the balance queried for it, and exactly
\* the map was printed; when some query failed or its task panicked, main did
\* not return Ok; and
\* when main returned an error there is no map and nothing was printed.
C18_BalancesAllOrNothing ==
    prog = "balance" =>
        /\ mainResult = "Ok" =>
            /\ Len(queries) = Len(addresses)
            /\ \A i \in 1..Len(queries) :
                queries[i].address = addresses[i] /\ queries[i].res = "Ok"
            /\ DOMAIN out = { addresses[i] : i \in 1..Len(addresses) }
            /\ \A a \in DOMAIN out : out[a] = queries[LastQueryFor(a)].balance
            /\ shown = { <<a, out[a]>> : a \in DOMAIN out }
        /\ (mainResult # "none" /\ \E i \in 1..Len(queries) : queries[i].res \in {"Err", "Panicked"}) =>
            mainResult = "Err"
        /\ mainResult = "Err" => (DOMAIN out = {} /\ shown = {})
        /\ mainResult = "none" => shown = {}

\* Three addresses, the first query succeeded and was inserted, the second
\* failed: main returned the error, no map is left and nothing was printed.
C18_Witness ==
    /\ prog = "balance"
    /\ Len(queries) = 3
    /\ queries[1].res = "Ok" /\ queries[1].balance = 1
    /\ queries[2].res = "Err"
    /\ joined = 1
    /\ mainResult = "Err"
    /\ shown = {}
    /\ exited

====
